---------------------------- MODULE Spec2Model ----------------------------
(***************************************************************************)
(* A model of four parts of the promql-engine repository:                  *)
(*                                                                         *)
(*   - logicalplan.PassthroughOptimizer (src/unnamed/part_000):            *)
(*     labelSetsMatch, matchingEngineTime and Optimize;                    *)
(*   - engine.rangeQuery.Exec (src/engine/range_query.go, lines 28-87);    *)
(*   - function.bucketQuantile with coalesceBuckets and                    *)
(*     ensureMonotonicAndIgnoreSmallDeltas (same file, lines 231-390);     *)
(*   - OperatorTelemetry with NoopTelemetry and TrackedTelemetry (same     *)
(*     file, lines 101-168).                                               *)
(*                                                                         *)
(* Each part has its own specification over the shared variables: the      *)
(* variables of the other parts keep their idle values.                    *)
(***************************************************************************)
EXTENDS Integers, Sequences, FiniteSets

VARIABLES
    \* labelSetsMatch: the arguments of one call and what it returned
    matchers, lset, matched,
    \* PassthroughOptimizer: the configured endpoints, the arguments of one
    \* call of Optimize and the node it returned
    engines, plan, opts, optimized,
    \* rangeQuery.Exec: where the executor stands, its Next calls so far, the
    \* per-series accumulators, the pool's buffers (sample buffers and
    \* step-vector containers), what Next has returned so far, the executor's
    \* reads and returns of buffers in order, and the result of Exec
    pc, calls, seriesMap, samplesBuf, vectorsBuf, returned, log, result,
    \* bucketQuantile: the arguments of one call (the bucket slice is sorted
    \* and rewritten in place) and what the call computed and returned
    q, buckets, quantile,
    \* OperatorTelemetry: the telemetry object NewTelemetry returned, and the
    \* calls made on it so far, in order
    tm, passed

matchVars == <<matchers, lset, matched>>
optVars == <<engines, plan, opts, optimized>>
execVars ==
    <<pc, calls, seriesMap, samplesBuf, vectorsBuf, returned, log, result>>

quantileVars == <<q, buckets, quantile>>

telemetryVars == <<tm, passed>>

vars == <<matchVars, optVars, execVars, quantileVars, telemetryVars>>

----------------------------------------------------------------------------
(* Helpers on sequences.                                                   *)

Range(s) == {s[i] : i \in 1..Len(s)}

\* The sequences over S of length 0..n.
SeqsUpTo(S, n) == UNION {[1..k -> S] : k \in 0..n}

\* The sequences over S of length 0..n without a repeated element.
InjSeqsUpTo(S, n) ==
    {s \in SeqsUpTo(S, n) : \A i, j \in 1..Len(s) : s[i] = s[j] => i = j}

----------------------------------------------------------------------------
(* Bounds of the model.                                                    *)

MaxMatchers == 2     \* matchers of one selector
MaxLabelSets == 2    \* label sets of one backend, in the labelSetsMatch runs
MaxEngines == 2      \* configured backends
MaxDepth == 1        \* depth of a plan above its leaves
MaxTick == 5         \* the latest instant of a query range, in ticks
MaxCalls == 3        \* calls of the root operator's Next in one Exec
MaxSteps == 3        \* step vectors the root operator produces in one Exec
MaxBuckets == 3      \* buckets handed to one call of bucketQuantile
TicksPerMilli == 2   \* a time.Time is finer than a millisecond

----------------------------------------------------------------------------
(* labels.Labels and labels.Matcher.  A label set is a set of <<name,      *)
(* value>> pairs with distinct names.  A matcher is an equality or an      *)
(* inequality on one label (a regular-expression matcher goes through the  *)
(* same Matches call and is not modelled).                                 *)

Has(ls, name) == \E p \in ls : p[1] = name

Get(ls, name) == IF Has(ls, name) THEN (CHOOSE p \in ls : p[1] = name)[2] ELSE ""

Matches(m, v) == IF m.Type = "=" THEN v = m.Value ELSE v # m.Value

Matcher(n, t, v) == [Name |-> n, Type |-> t, Value |-> v]

JobWeb == Matcher("job", "=", "web")
JobDb == Matcher("job", "=", "db")
JobNotWeb == Matcher("job", "!=", "web")
EnvProd == Matcher("env", "=", "prod")

MatcherChoices == {JobWeb, JobDb, JobNotWeb, EnvProd}

LabelSetChoices ==
    { {}, {<<"job", "web">>}, {<<"job", "db">>},
      {<<"job", "web">>, <<"env", "dev">>}, {<<"env", "prod">>} }

----------------------------------------------------------------------------
(* labelSetsMatch, part_000 lines 21-39.                                   *)

\* The condition of line 29 with the label's presence test dropped.
matcherRejectsClosedWorld(m, ls) == ~Matches(m, Get(ls, m.Name))

\* Line 29: the matcher names a label the set has, and rejects its value.
matcherRejects(m, ls) == Has(ls, m.Name) /\ ~Matches(m, Get(ls, m.Name))

\* Lines 27-33: the inner loop, from matcher i on; TRUE is notMatched.
RECURSIVE notMatchedFrom(_, _, _)
notMatchedFrom(ms, ls, i) ==
    IF i > Len(ms) THEN FALSE
    ELSE IF matcherRejects(ms[i], ls) THEN TRUE
    ELSE notMatchedFrom(ms, ls, i + 1)

\* Lines 26-38: the outer loop, from label set j on.
RECURSIVE labelSetsMatchFrom(_, _, _)
labelSetsMatchFrom(ms, sets, j) ==
    IF j > Len(sets) THEN FALSE
    ELSE IF ~notMatchedFrom(ms, sets[j], 1) THEN TRUE
    ELSE labelSetsMatchFrom(ms, sets, j + 1)

labelSetsMatch(ms, sets) ==
    IF Len(sets) = 0 THEN TRUE ELSE labelSetsMatchFrom(ms, sets, 1)

----------------------------------------------------------------------------
(* The specification of labelSetsMatch: the arguments are drawn, the call  *)
(* returns.                                                                *)

NotCalled == [done |-> FALSE, val |-> FALSE]

IdleOptimizer ==
    /\ engines = <<>>
    /\ plan = [kind |-> "NumberLiteral", matchers |-> <<>>, kids |-> <<>>]
    /\ opts = [Start |-> 0, End |-> 0]
    /\ optimized = [kind |-> "NotRun"]

IdleMatch ==
    /\ matchers = <<>>
    /\ lset = <<>>
    /\ matched = NotCalled

IdleQuantile ==
    /\ q = [k |-> "NaN", n |-> 0, d |-> 1]
    /\ buckets = <<>>
    /\ quantile = [done |-> FALSE]

IdleTelemetry ==
    /\ tm = [kind |-> "none"]
    /\ passed = <<>>

IdleExec ==
    /\ pc = "idle"
    /\ calls = 0
    /\ seriesMap = <<>>
    /\ samplesBuf = <<>>
    /\ vectorsBuf = <<>>
    /\ returned = <<>>
    /\ log = <<>>
    /\ result = [Err |-> "nil", Value |-> <<>>]

InitMatch ==
    /\ matchers \in SeqsUpTo(MatcherChoices, MaxMatchers)
    /\ lset \in SeqsUpTo(LabelSetChoices, MaxLabelSets)
    /\ matched = NotCalled
    /\ IdleOptimizer
    /\ IdleExec
    /\ IdleQuantile
    /\ IdleTelemetry

CallLabelSetsMatch ==
    /\ ~matched.done
    /\ matched' = [done |-> TRUE, val |-> labelSetsMatch(matchers, lset)]
    /\ UNCHANGED <<matchers, lset, optVars, execVars, quantileVars, telemetryVars>>

NextMatch == CallLabelSetsMatch

SpecMatch == InitMatch /\ [][NextMatch]_vars


----------------------------------------------------------------------------
(* C3.  labelSetsMatch is TRUE for an empty label-set list; otherwise it   *)
(* is TRUE exactly when some label set has, for every matcher, either a    *)
(* value of the matcher's label that the matcher accepts or no such label  *)
(* at all.  [job=web] against [{job=db}] is FALSE, against                 *)
(* [{job=db},{job=web}] TRUE, and no matcher at all matches any non-empty  *)
(* list.                                                                   *)

SatisfiedOrAbsent(m, ls) ==
    \/ \E p \in ls : p[1] = m.Name /\ Matches(m, p[2])
    \/ \A p \in ls : p[1] # m.Name

C3_LabelSetsMatch ==
    matched.done =>
        /\ matched.val =
               (\/ Len(lset) = 0
                \/ \E j \in 1..Len(lset) :
                       \A i \in 1..Len(matchers) :
                           SatisfiedOrAbsent(matchers[i], lset[j]))
        /\ (matchers = <<JobWeb>> /\ lset = << {<<"job", "db">>} >>)
               => matched.val = FALSE
        /\ (matchers = <<JobWeb>>
                /\ lset = << {<<"job", "db">>}, {<<"job", "web">>} >>)
               => matched.val = TRUE
        /\ (matchers = <<>> /\ Len(lset) > 0) => matched.val = TRUE

\* The second label set matches: job is accepted and env is absent from it.
C3_Witness ==
    /\ matched.done
    /\ matchers = <<JobWeb, EnvProd>>
    /\ lset = << {<<"job", "db">>}, {<<"job", "web">>} >>
    /\ matched.val = TRUE

----------------------------------------------------------------------------
(* Logical plans.  A node has a kind, the matchers of a vector selector    *)
(* and its children; Clone and TraverseBottomUp are not part of the given  *)
(* sources and follow the description of the plan tree: a deep copy, and a *)
(* visit of every child before its parent.                                 *)

Node(k, ms, kids) == [kind |-> k, matchers |-> ms, kids |-> kids]

NumberLiteral == Node("NumberLiteral", <<>>, <<>>)
VectorSelector(ms) == Node("VectorSelector", ms, <<>>)
Aggregation(c) == Node("Aggregation", <<>>, <<c>>)
Binary(l, r) == Node("Binary", <<>>, <<l, r>>)

SelectorMatchers == {<<JobWeb>>, <<JobDb>>, <<EnvProd>>}

Leaves == {NumberLiteral} \cup {VectorSelector(ms) : ms \in SelectorMatchers}

RECURSIVE PlansOfDepth(_)
PlansOfDepth(d) ==
    IF d = 0 THEN Leaves
    ELSE LET sub == PlansOfDepth(d - 1)
         IN  sub \cup {Aggregation(c) : c \in sub}
                 \cup {Binary(l, r) : l \in sub, r \in Leaves}

RECURSIVE Clone(_)
Clone(p) ==
    [kind |-> p.kind, matchers |-> p.matchers,
     kids |-> [i \in 1..Len(p.kids) |-> Clone(p.kids[i])]]

\* The matchers of the vector selectors of p, in the order a bottom-up
\* traversal whose callback never stops reaches them.
RECURSIVE Selectors(_)
RECURSIVE SelectorsOfKids(_, _)
SelectorsOfKids(kids, i) ==
    IF i > Len(kids) THEN <<>>
    ELSE Selectors(kids[i]) \o SelectorsOfKids(kids, i + 1)

Selectors(p) ==
    SelectorsOfKids(p.kids, 1)
        \o (IF p.kind = "VectorSelector" THEN <<p.matchers>> ELSE <<>>)

----------------------------------------------------------------------------
(* Remote engines and query options.  MinT and MaxT are milliseconds; the  *)
(* start and end of a query are instants in ticks, TicksPerMilli to the    *)
(* millisecond, and UnixMilli rounds an instant down to its millisecond.   *)

Engine(n, lo, hi, sets) ==
    [Name |-> n, MinT |-> lo, MaxT |-> hi, LabelSets |-> sets]

EngineChoices ==
    { Engine("web", 1, 1, << {<<"job", "web">>} >>),
      Engine("db", 0, 2, << {<<"job", "db">>} >>),
      Engine("any", 1, 2, <<>>),
      Engine("both", 0, 0,
             << {<<"job", "db">>}, {<<"job", "web">>, <<"env", "dev">>} >>) }

OptionChoices ==
    {[Start |-> s, End |-> e] : s \in 0..MaxTick, e \in 0..MaxTick}

UnixMilli(t) == t \div TicksPerMilli

----------------------------------------------------------------------------
(* PassthroughOptimizer, part_000 lines 41-87.                             *)

\* Line 42 with the two comparisons made non-strict.
matchingEngineTimeClosed(e, o) ==
    ~(UnixMilli(o.Start) >= e.MaxT \/ UnixMilli(o.End) <= e.MinT)

matchingEngineTime(e, o) ==
    ~(UnixMilli(o.Start) > e.MaxT \/ UnixMilli(o.End) < e.MinT)

\* Lines 51-56 and 78-83.
RemoteExecution(e, p, o) ==
    [kind |-> "RemoteExecution", Engine |-> e, Query |-> Clone(p),
     QueryRangeStart |-> o.Start, QueryRangeEnd |-> o.End]

\* Lines 66-72 with an engine that is already a candidate skipped.
RECURSIVE appendMatchingOnce(_, _, _, _)
appendMatchingOnce(acc, ms, engs, j) ==
    IF j > Len(engs) THEN acc
    ELSE IF ~labelSetsMatch(ms, engs[j].LabelSets)
                \/ \E k \in 1..Len(acc) : acc[k] = engs[j]
         THEN appendMatchingOnce(acc, ms, engs, j + 1)
         ELSE appendMatchingOnce(Append(acc, engs[j]), ms, engs, j + 1)

\* Lines 66-72: the loop over the engines for one selector, from engine j on.
RECURSIVE appendMatching(_, _, _, _)
appendMatching(acc, ms, engs, j) ==
    IF j > Len(engs) THEN acc
    ELSE IF ~labelSetsMatch(ms, engs[j].LabelSets)
         THEN appendMatching(acc, ms, engs, j + 1)
         ELSE appendMatching(Append(acc, engs[j]), ms, engs, j + 1)

\* Lines 63-75: the candidates after the traversal, from selector i on.
RECURSIVE matchingLabelsEngines(_, _, _, _)
matchingLabelsEngines(acc, sels, engs, i) ==
    IF i > Len(sels) THEN acc
    ELSE matchingLabelsEngines(appendMatching(acc, sels[i], engs, 1),
                               sels, engs, i + 1)

Optimize(p, o, engs) ==
    IF Len(engs) = 1
    THEN IF ~matchingEngineTime(engs[1], o)
         THEN p
         ELSE RemoteExecution(engs[1], p, o)
    ELSE IF Len(engs) = 0
    THEN p
    ELSE LET cands == matchingLabelsEngines(<<>>, Selectors(p), engs, 1)
         IN  IF Len(cands) = 1 /\ matchingEngineTime(cands[1], o)
             THEN RemoteExecution(cands[1], p, o)
             ELSE p

----------------------------------------------------------------------------
(* The specification of the optimizer: an optimizer is constructed over a  *)
(* list of endpoints, and Optimize is called on a plan and query options.  *)

NotRun == [kind |-> "NotRun"]

InitOptimize ==
    /\ engines \in InjSeqsUpTo(EngineChoices, MaxEngines)
    /\ plan = NumberLiteral
    /\ opts = [Start |-> 0, End |-> 0]
    /\ optimized = NotRun
    /\ IdleMatch
    /\ IdleExec
    /\ IdleQuantile
    /\ IdleTelemetry

CallOptimize ==
    /\ optimized = NotRun
    /\ \E p \in PlansOfDepth(MaxDepth), o \in OptionChoices :
           /\ o.Start <= o.End
           /\ plan' = p
           /\ opts' = o
           /\ optimized' = Optimize(p, o, engines)
    /\ UNCHANGED <<engines, matchVars, execVars, quantileVars, telemetryVars>>

NextOptimize == CallOptimize

SpecOptimize == InitOptimize /\ [][NextOptimize]_vars

\* The backend's coverage and the query range share a millisecond.
Intersects(e, o) ==
    \E t \in 0..MaxTick :
        /\ e.MinT <= t /\ t <= e.MaxT
        /\ UnixMilli(o.Start) <= t /\ t <= UnixMilli(o.End)

Delegated(e) ==
    [kind |-> "RemoteExecution", Engine |-> e, Query |-> plan,
     QueryRangeStart |-> opts.Start, QueryRangeEnd |-> opts.End]

----------------------------------------------------------------------------
(* C1.  With fewer than two backends Optimize delegates exactly when there *)
(* is one backend and its [MinT, MaxT] intersects the query range in       *)
(* milliseconds: it then returns a RemoteExecution of that backend, the    *)
(* whole plan and the query's start and end; otherwise it returns the      *)
(* input plan.  Label sets and matchers play no part.                      *)

C1_FewerThanTwoBackends ==
    (optimized # NotRun /\ Len(engines) < 2) =>
        IF Len(engines) = 1 /\ Intersects(engines[1], opts)
        THEN optimized = Delegated(engines[1])
        ELSE optimized = plan

\* The only backend answers for job=web, the plan selects job=db, the query
\* starts within the last millisecond the backend covers: delegated.
C1_Witness ==
    /\ Len(engines) = 1
    /\ engines[1].Name = "web"
    /\ plan = VectorSelector(<<JobDb>>)
    /\ opts.Start = TicksPerMilli + 1
    /\ optimized = Delegated(engines[1])

----------------------------------------------------------------------------
(* C2.  With two or more backends Optimize appends, for every vector       *)
(* selector and every backend, the backend when labelSetsMatch accepts the *)
(* selector's matchers against the backend's label sets, without           *)
(* deduplication.  It delegates the whole plan exactly when that list has  *)
(* one entry whose coverage intersects the query range, and returns the    *)
(* input plan in every other case.                                         *)

Hits ==
    LET sels == Selectors(plan)
    IN  {h \in (1..Len(sels)) \X (1..Len(engines)) :
             labelSetsMatch(sels[h[1]], engines[h[2]].LabelSets)}

C2_TwoOrMoreBackends ==
    (optimized # NotRun /\ Len(engines) >= 2) =>
        IF Cardinality(Hits) = 1
               /\ \A h \in Hits : Intersects(engines[h[2]], opts)
        THEN \A h \in Hits : optimized = Delegated(engines[h[2]])
        ELSE optimized = plan

\* Two selectors that each match only the same backend, whose coverage
\* intersects the range: two entries, so the plan comes back unchanged.
C2_Witness ==
    /\ Len(engines) = 2
    /\ engines[1].Name = "web" /\ engines[2].Name = "db"
    /\ plan = Binary(VectorSelector(<<JobWeb>>), VectorSelector(<<JobWeb>>))
    /\ Intersects(engines[1], opts)
    /\ Cardinality(Hits) = 2
    /\ optimized = plan

----------------------------------------------------------------------------
(* rangeQuery.Exec, range_query.go lines 28-87.                            *)
(*                                                                         *)
(* The root operator is the environment: each call of Next returns a batch *)
(* of step vectors, the terminal nil or an error.  A step vector is a      *)
(* timestamp T and a sample buffer; a batch is a container of step         *)
(* vectors.  Both kinds of buffer belong to the pool: once returned, a     *)
(* buffer may be handed out again and overwritten, so its contents become  *)
(* garbage the moment it is returned.                                      *)

SeriesMapLen == 3000     \* line 29: make([]*promql.Series, 3000)

Errors == {"context canceled", "fetch failed"}

\* The label set of a series, by its rank in the order of labels: the
\* operator tree gives every series id its own label set.
MetricOf(id) == SeriesMapLen - id

ValueOf(t, id) == (t * 10) + (id % 10)

Sample(id, t) == [ID |-> id, Metric |-> MetricOf(id), V |-> ValueOf(t, id)]

\* What a returned buffer holds when it is read again.
Garbage == [ID |-> 0, Metric |-> MetricOf(0), V |-> -1]

\* The series ids of the samples of one step, in the step's order.
StepChoices ==
    { <<>>, <<0>>, <<1, 0>>, <<SeriesMapLen - 1, 1>>, <<0, SeriesMapLen>> }

\* Lines 41-50: the accumulators after one sample of the step at t.
mergeSample(sm, t, sample) ==
    LET had == sample.ID \in DOMAIN sm
        old == IF had THEN sm[sample.ID]
               ELSE [Metric |-> sample.Metric, Points |-> <<>>]
        new == [old EXCEPT !.Points = Append(@, [T |-> t, V |-> sample.V])]
    IN  [id \in DOMAIN sm \cup {sample.ID} |->
             IF id = sample.ID THEN new ELSE sm[id]]

\* Line 52, VectorPool.PutSamples.
PutSamples(st, S) ==
    [st EXCEPT
        !.samplesBuf[S] =
            [live |-> FALSE,
             samples |-> [k \in 1..Len(@.samples) |-> Garbage]],
        !.log = Append(@, [op |-> "putS", id |-> S])]

\* Line 54, VectorPool.PutVectors.
PutVectors(st, r) ==
    [st EXCEPT
        !.vectorsBuf[r] =
            [live |-> FALSE,
             steps |-> [i \in 1..Len(@.steps) |-> [T |-> -1, S |-> @.steps[i].S]]],
        !.log = Append(@, [op |-> "putV", id |-> r])]

\* Lines 40-51: the samples of one step vector, from sample k on.  An id
\* beyond the accumulator table is an index out of range: Exec panics.
RECURSIVE consumeSamples(_, _, _)
consumeSamples(st, vector, k) ==
    IF k > Len(st.samplesBuf[vector.S].samples) THEN st
    ELSE LET sample == st.samplesBuf[vector.S].samples[k]
             read == [st EXCEPT
                         !.log = Append(@, [op |-> "read", id |-> vector.S])]
         IN  IF sample.ID >= SeriesMapLen
             THEN [read EXCEPT !.panicked = TRUE]
             ELSE consumeSamples(
                      [read EXCEPT
                          !.seriesMap = mergeSample(@, vector.T, sample)],
                      vector, k + 1)

\* Lines 39-53: the step vectors of batch r, from step i on.
RECURSIVE consumeSteps(_, _, _)
consumeSteps(st, r, i) ==
    IF i > Len(st.vectorsBuf[r].steps) THEN st
    ELSE LET merged == consumeSamples(st, st.vectorsBuf[r].steps[i], 1)
         IN  IF merged.panicked THEN merged
             ELSE consumeSteps(
                      PutSamples(merged, st.vectorsBuf[r].steps[i].S),
                      r, i + 1)

\* Lines 39-54.
consumeBatch(st, r) ==
    LET after == consumeSteps(st, r, 1)
    IN  IF after.panicked THEN after ELSE PutVectors(after, r)

\* Lines 57-62: the non-nil accumulators in the order of their index.
RECURSIVE materialize(_, _)
materialize(sm, ids) ==
    IF ids = {} THEN <<>>
    ELSE LET least == CHOOSE x \in ids : \A y \in ids : x <= y
         IN  <<sm[least]>> \o materialize(sm, ids \ {least})

\* Line 64: sort.Sort of a promql.Matrix orders the series by their labels.
RECURSIVE insertSorted(_, _)
insertSorted(sorted, series) ==
    IF sorted = <<>> THEN <<series>>
    ELSE IF series.Metric < Head(sorted).Metric THEN <<series>> \o sorted
    ELSE <<Head(sorted)>> \o insertSorted(Tail(sorted), series)

RECURSIVE sortMatrix(_)
sortMatrix(m) ==
    IF m = <<>> THEN <<>> ELSE insertSorted(sortMatrix(Tail(m)), Head(m))

\* Lines 85-87.
newErrResult(err) == [Err |-> err, Value |-> <<>>]

\* Lines 57-67.
newResult(sm) ==
    [Err |-> "nil", Value |-> sortMatrix(materialize(sm, DOMAIN sm))]

\* Lines 32-34 with a break in the place of the return.
onNextErrorBreak(err, sm) == newResult(sm)

\* Lines 32-34.
onNextError(err, sm) == newErrResult(err)

----------------------------------------------------------------------------
(* The specification of Exec: line 29 has run, and every step is one call  *)
(* of Next with all that Exec does before the next call.                   *)

Init ==
    /\ pc = "loop"
    /\ calls = 0
    /\ seriesMap = <<>>
    /\ samplesBuf = <<>>
    /\ vectorsBuf = <<>>
    /\ returned = <<>>
    /\ log = <<>>
    /\ result = [Err |-> "nil", Value |-> <<>>]
    /\ IdleMatch
    /\ IdleOptimizer
    /\ IdleQuantile
    /\ IdleTelemetry

\* Next returns a batch whose steps carry the series ids of shape.
NextBatch(shape) ==
    /\ pc = "loop"
    /\ calls < MaxCalls
    /\ Len(samplesBuf) + Len(shape) <= MaxSteps
    /\ LET n0 == Len(samplesBuf)
           r == Len(vectorsBuf) + 1
           filled == [i \in 1..Len(shape) |->
                         [k \in 1..Len(shape[i]) |->
                             Sample(shape[i][k], n0 + i)]]
           st0 == [seriesMap |-> seriesMap,
                   samplesBuf |->
                       samplesBuf \o [i \in 1..Len(shape) |->
                                         [live |-> TRUE, samples |-> filled[i]]],
                   vectorsBuf |->
                       Append(vectorsBuf,
                              [live |-> TRUE,
                               steps |-> [i \in 1..Len(shape) |->
                                             [T |-> n0 + i, S |-> n0 + i]]]),
                   log |-> Append(log, [op |-> "next", id |-> calls + 1]),
                   panicked |-> FALSE]
           st == consumeBatch(st0, r)
       IN  /\ seriesMap' = st.seriesMap
           /\ samplesBuf' = st.samplesBuf
           /\ vectorsBuf' = st.vectorsBuf
           /\ log' = st.log
           /\ pc' = IF st.panicked THEN "panicked" ELSE "loop"
           /\ returned' =
                  Append(returned,
                         [kind |-> "batch", err |-> "nil", r |-> r,
                          steps |-> [i \in 1..Len(shape) |->
                                        [T |-> n0 + i, S |-> n0 + i,
                                         Samples |-> filled[i]]]])
    /\ calls' = calls + 1
    /\ UNCHANGED <<result, matchVars, optVars, quantileVars, telemetryVars>>

\* Next returns nil: lines 35-36 and 57-67.
NextEnd ==
    /\ pc = "loop"
    /\ calls < MaxCalls
    /\ calls' = calls + 1
    /\ returned' =
           Append(returned, [kind |-> "nil", err |-> "nil", r |-> 0, steps |-> <<>>])
    /\ log' = Append(log, [op |-> "next", id |-> calls + 1])
    /\ result' = newResult(seriesMap)
    /\ pc' = "done"
    /\ UNCHANGED <<seriesMap, samplesBuf, vectorsBuf, matchVars, optVars,
                   quantileVars, telemetryVars>>

\* Next returns an error: lines 32-34.
NextError(err) ==
    /\ pc = "loop"
    /\ calls < MaxCalls
    /\ calls' = calls + 1
    /\ returned' =
           Append(returned, [kind |-> "err", err |-> err, r |-> 0, steps |-> <<>>])
    /\ log' = Append(log, [op |-> "next", id |-> calls + 1])
    /\ result' = onNextError(err, seriesMap)
    /\ pc' = "done"
    /\ UNCHANGED <<seriesMap, samplesBuf, vectorsBuf, matchVars, optVars,
                   quantileVars, telemetryVars>>

Next ==
    \/ \E shape \in SeqsUpTo(StepChoices, MaxSteps) : NextBatch(shape)
    \/ NextEnd
    \/ \E err \in Errors : NextError(err)

Spec == Init /\ [][Next]_vars

----------------------------------------------------------------------------
(* What Next has returned so far, as the operator produced it (the         *)
(* variable returned keeps the samples by value, untouched by the pool).   *)

CarriedIDs ==
    UNION { UNION { {returned[b].steps[i].Samples[k].ID :
                         k \in 1..Len(returned[b].steps[i].Samples)} :
                    i \in 1..Len(returned[b].steps)} :
            b \in 1..Len(returned)}

StepPoints(step, id) ==
    LET sel == SelectSeq(step.Samples, LAMBDA x : x.ID = id)
    IN  [k \in 1..Len(sel) |-> [T |-> step.T, V |-> sel[k].V]]

RECURSIVE StepsPoints(_, _, _)
StepsPoints(steps, id, i) ==
    IF i > Len(steps) THEN <<>>
    ELSE StepPoints(steps[i], id) \o StepsPoints(steps, id, i + 1)

\* The (timestamp, value) pairs of the samples of series id, in the order
\* the steps were produced, from the b-th return of Next on.
RECURSIVE ExpectedPoints(_, _)
ExpectedPoints(id, b) ==
    IF b > Len(returned) THEN <<>>
    ELSE StepsPoints(returned[b].steps, id, 1) \o ExpectedPoints(id, b + 1)

NoNextError == \A b \in 1..Len(returned) : returned[b].kind # "err"

\* The matrix holds one series per carried id, with exactly its points, and
\* no other series.
MatrixIsExact ==
    /\ result.Err = "nil"
    /\ \A id \in CarriedIDs :
           /\ Cardinality({n \in 1..Len(result.Value) :
                               result.Value[n].Metric = MetricOf(id)}) = 1
           /\ \A n \in 1..Len(result.Value) :
                  result.Value[n].Metric = MetricOf(id)
                      => result.Value[n].Points = ExpectedPoints(id, 1)
    /\ \A n \in 1..Len(result.Value) :
           \E id \in CarriedIDs : result.Value[n].Metric = MetricOf(id)

----------------------------------------------------------------------------
(* C4.  Whatever batches Next returns without error before its nil, Exec   *)
(* returns a result without error whose matrix has, for every series id    *)
(* carried by a sample, exactly one series with exactly that id's          *)
(* (timestamp, value) pairs in the order of the steps, and no other        *)
(* series; this for every series id, without an upper limit.  Stated as:   *)
(* Exec never aborts on a batch, and once Next has returned nil after      *)
(* batches only, the matrix is exact.                                      *)

C4_ExecAssemblesEverySeries ==
    /\ pc # "panicked"
    /\ (pc = "done" /\ NoNextError) => MatrixIsExact

\* What does hold: the matrix is exact whenever Exec returns, and Exec
\* aborts only on a series id that the table of line 29 has no place for.
ExecWithinTable ==
    /\ (pc = "done" /\ NoNextError) => MatrixIsExact
    /\ pc = "panicked" => \E id \in CarriedIDs : id >= SeriesMapLen
    /\ (\A id \in CarriedIDs : id < SeriesMapLen) => pc # "panicked"

----------------------------------------------------------------------------
(* C5.  When a call of Next returns an error, Exec calls Next no more and  *)
(* returns a result whose Err is that error and whose Value is empty,      *)
(* whatever was accumulated from the batches before.                       *)

C5_ErrorDiscardsPartial ==
    \A b \in 1..Len(returned) :
        returned[b].kind = "err" =>
            /\ b = Len(returned)
            /\ calls = b
            /\ pc = "done"
            /\ result.Err = returned[b].err
            /\ result.Value = <<>>

\* Two batches were merged into the accumulators before the error.
C5_Witness ==
    /\ Len(returned) = 3
    /\ returned[3].kind = "err"
    /\ DOMAIN seriesMap # {}
    /\ \A b \in 1..2 : returned[b].steps # <<>>
    /\ result.Err = returned[3].err
    /\ result.Value = <<>>

----------------------------------------------------------------------------
(* C6.  For every batch Next returned without error: each step's sample    *)
(* buffer is returned to the pool exactly once, after all samples of the   *)
(* step were merged; the batch's container is returned exactly once, after *)
(* the sample buffers of all its steps and before the next call of Next;   *)
(* and nothing is read from a buffer after its return (the accumulated     *)
(* points are those the operator produced).                                *)

At(op, id) == {n \in 1..Len(log) : log[n] = [op |-> op, id |-> id]}

IsPrefix(s, t) == Len(s) <= Len(t) /\ \A n \in 1..Len(s) : s[n] = t[n]

SamplesBufferReturnedOnce(step) ==
    /\ Cardinality(At("putS", step.S)) = 1
    /\ Cardinality(At("read", step.S)) = Len(step.Samples)
    /\ \A n \in At("read", step.S), m \in At("putS", step.S) : n < m

VectorsBufferReturnedOnce(b) ==
    /\ Cardinality(At("putV", returned[b].r)) = 1
    /\ \A i \in 1..Len(returned[b].steps) :
           \A n \in At("putS", returned[b].steps[i].S),
              m \in At("putV", returned[b].r) : n < m
    /\ \A n \in At("putV", returned[b].r), m \in At("next", b + 1) : n < m

NoReadAfterReturn ==
    \A id \in DOMAIN seriesMap :
        IsPrefix(seriesMap[id].Points, ExpectedPoints(id, 1))

C6_BuffersReturnedExactlyOnce ==
    /\ \A b \in 1..Len(returned) :
           returned[b].kind = "batch" =>
               /\ \A i \in 1..Len(returned[b].steps) :
                      SamplesBufferReturnedOnce(returned[b].steps[i])
               /\ VectorsBufferReturnedOnce(b)
    /\ NoReadAfterReturn

\* What does hold: no buffer is returned twice or read after its return,
\* the order of the returns is as stated, and every buffer of a batch is
\* returned unless Exec aborted on that batch.
BuffersReturnedUnlessAborted ==
    /\ \A b \in 1..Len(returned) :
           (returned[b].kind = "batch" /\ (pc = "panicked" => b < Len(returned)))
               => /\ \A i \in 1..Len(returned[b].steps) :
                         SamplesBufferReturnedOnce(returned[b].steps[i])
                  /\ VectorsBufferReturnedOnce(b)
    /\ \A S \in 1..Len(samplesBuf) :
           /\ Cardinality(At("putS", S)) <= 1
           /\ \A n \in At("read", S), m \in At("putS", S) : n < m
    /\ \A r \in 1..Len(vectorsBuf) : Cardinality(At("putV", r)) <= 1
    /\ NoReadAfterReturn

----------------------------------------------------------------------------
(* Numbers of the histogram functions, range_query.go lines 231-390.       *)
(*                                                                         *)
(* A bucket count is lo + hi * Big, where Big stands for                   *)
(* 1 / smallDeltaTolerance = 10^12 and lo, hi are small integers: counts   *)
(* of this form are exact float64 values, and two of them are within the   *)
(* tolerance of almost.Equal exactly when the comparison below says so.    *)
(* Comparisons are by the coefficients, the highest first, which is the    *)
(* order of the values because every coefficient is far below Big.  An     *)
(* upper bound is an integer or +Inf.  A result is NaN, +Inf, -Inf or the  *)
(* quotient num / den of two such numbers, in exact arithmetic.            *)

N(lo, hi) == [lo |-> lo, hi |-> hi]

Zero == N(0, 0)
One == N(1, 0)

NAdd(a, b) == N(a.lo + b.lo, a.hi + b.hi)
NSub(a, b) == N(a.lo - b.lo, a.hi - b.hi)
NScale(k, a) == N(k * a.lo, k * a.hi)
NLess(a, b) == a.hi < b.hi \/ (a.hi = b.hi /\ a.lo < b.lo)
NLeq(a, b) == a = b \/ NLess(a, b)
NAbs(a) == IF NLess(a, Zero) THEN NScale(-1, a) ELSE a

\* The product of two numbers, by the coefficients of 1, Big and Big^2.
NMul(a, b) == <<a.lo * b.lo, (a.lo * b.hi) + (a.hi * b.lo), a.hi * b.hi>>

Less3(x, y) ==
    \/ x[3] < y[3]
    \/ x[3] = y[3] /\ x[2] < y[2]
    \/ x[3] = y[3] /\ x[2] = y[2] /\ x[1] < y[1]

Finite(v) == [inf |-> FALSE, v |-> v]
PlusInf == [inf |-> TRUE, v |-> 0]

\* buckets.Less, line 243.
BoundLess(a, b) == ~a.inf /\ (b.inf \/ a.v < b.v)

Le(ub, c) == [upperBound |-> ub, count |-> c]

NaN == [k |-> "NaN", num |-> Zero, den |-> One]
PosInf == [k |-> "+Inf", num |-> Zero, den |-> One]
NegInf == [k |-> "-Inf", num |-> Zero, den |-> One]
Fin(num, den) == [k |-> "fin", num |-> num, den |-> den]

FromBound(ub) == IF ub.inf THEN PosInf ELSE Fin(N(ub.v, 0), One)

\* (num / d) / c for an integer d > 0 and a count c: 0/0 is NaN, and a
\* non-zero number over 0 is an infinity.
FDivCount(num, d, c) ==
    IF c = Zero
    THEN IF num = Zero THEN NaN
         ELSE IF NLess(Zero, num) THEN PosInf ELSE NegInf
    ELSE Fin(num, NScale(d, c))

\* s + w * x for integers s, w with w > 0.
FScaleShift(s, w, x) ==
    IF x.k # "fin" THEN x
    ELSE Fin(NAdd(NScale(s, x.den), NScale(w, x.num)), x.den)

\* Two results are the same value.
FSame(x, y) ==
    /\ x.k = y.k
    /\ x.k = "fin" => NMul(x.num, y.den) = NMul(y.num, x.den)

----------------------------------------------------------------------------
(* almost.Equal(a, b, smallDeltaTolerance), called at line 372: equal, or  *)
(* both non-zero and |a - b| / (|a| + |b|) below the tolerance, that is    *)
(* |a - b| * Big < |a| + |b|.  With a zero operand the test is against the *)
(* smallest normal float, which no two different counts here are within.   *)

\* The test with an absolute difference in the place of the relative one.
almostEqualAbsolute(a, b) ==
    \/ a = b
    \/ LET diff == NAbs(NSub(a, b))
       IN  Less3(<<0, diff.lo, diff.hi>>, <<1, 0, 0>>)

almostEqual(a, b) ==
    \/ a = b
    \/ /\ a # Zero
       /\ b # Zero
       /\ LET diff == NAbs(NSub(a, b))
              absSum == NAdd(NAbs(a), NAbs(b))
          IN  Less3(<<0, diff.lo, diff.hi>>, <<absSum.lo, absSum.hi, 0>>)

----------------------------------------------------------------------------
(* sort.Sort(buckets), line 281: the slice is reordered in place into some *)
(* arrangement that ascends by upper bound; the order among buckets of one *)
(* bound is whatever the sort leaves.                                      *)

RECURSIVE arrangementsOf(_, _)
arrangementsOf(bs, idx) ==
    IF idx = {} THEN {<<>>}
    ELSE LET least == {i \in idx :
                          \A j \in idx :
                              ~BoundLess(bs[j].upperBound, bs[i].upperBound)}
         IN  UNION { {<<bs[i]>> \o rest : rest \in arrangementsOf(bs, idx \ {i})} :
                     i \in least }

SortedArrangements(bs) == arrangementsOf(bs, 1..Len(bs))

----------------------------------------------------------------------------
(* coalesceBuckets, lines 321-335: arr is the backing array, last the      *)
(* bucket being summed, i the buckets written so far, k the next bucket.   *)

RECURSIVE coalesceFrom(_, _, _, _)
coalesceFrom(arr, last, i, k) ==
    IF k > Len(arr)
    THEN [arr |-> [arr EXCEPT ![i + 1] = last], n |-> i + 1]
    ELSE LET b == arr[k]
         IN  IF b.upperBound = last.upperBound
             THEN coalesceFrom(arr,
                               [last EXCEPT !.count = NAdd(@, b.count)],
                               i, k + 1)
             ELSE coalesceFrom([arr EXCEPT ![i + 1] = last], b, i + 1, k + 1)

coalesceBuckets(bs) == coalesceFrom(bs, bs[1], 0, 2)

----------------------------------------------------------------------------
(* ensureMonotonicAndIgnoreSmallDeltas, lines 363-390, on the first n      *)
(* buckets of the backing array, from bucket i on.                         *)

\* The loop with the continue of line 385 missing: after a decrease is
\* removed, prev is set to the decreased count all the same.
RECURSIVE monotonicFromNoContinue(_, _, _, _, _, _)
monotonicFromNoContinue(arr, n, prev, i, forced, fixed) ==
    IF i > n
    THEN [arr |-> arr, forcedMonotonic |-> forced, fixedPrecision |-> fixed]
    ELSE LET curr == arr[i].count
         IN  IF curr = prev
             THEN monotonicFromNoContinue(arr, n, prev, i + 1, forced, fixed)
             ELSE IF almostEqual(prev, curr)
             THEN monotonicFromNoContinue([arr EXCEPT ![i].count = prev],
                                          n, prev, i + 1, forced, TRUE)
             ELSE IF NLess(curr, prev)
             THEN monotonicFromNoContinue([arr EXCEPT ![i].count = prev],
                                          n, curr, i + 1, TRUE, fixed)
             ELSE monotonicFromNoContinue(arr, n, curr, i + 1, forced, fixed)

RECURSIVE monotonicFrom(_, _, _, _, _, _)
monotonicFrom(arr, n, prev, i, forced, fixed) ==
    IF i > n
    THEN [arr |-> arr, forcedMonotonic |-> forced, fixedPrecision |-> fixed]
    ELSE LET curr == arr[i].count
         IN  IF curr = prev
             THEN monotonicFrom(arr, n, prev, i + 1, forced, fixed)
             ELSE IF almostEqual(prev, curr)
             THEN monotonicFrom([arr EXCEPT ![i].count = prev],
                                n, prev, i + 1, forced, TRUE)
             ELSE IF NLess(curr, prev)
             THEN monotonicFrom([arr EXCEPT ![i].count = prev],
                                n, prev, i + 1, TRUE, fixed)
             ELSE monotonicFrom(arr, n, curr, i + 1, forced, fixed)

ensureMonotonicAndIgnoreSmallDeltas(arr, n) ==
    monotonicFrom(arr, n, arr[1].count, 2, FALSE, FALSE)

----------------------------------------------------------------------------
(* bucketQuantile, lines 271-316.  The quantile is NaN or the quotient     *)
(* n / d of two integers with d > 0.  The call is given the caller's       *)
(* slice bs and the arrangement the sort of line 281 would leave it in,    *)
(* and yields the three results, the caller's slice as the call leaves it, *)
(* and the buckets and flags that lines 286-287 computed (if reached).     *)

Q(n, d) == [k |-> "fin", n |-> n, d |-> d]
QNaN == [k |-> "NaN", n |-> 0, d |-> 1]

\* sort.Search(n, f), called at line 297: the binary search of the least
\* index in 0..n-1 at which f holds, n if there is none; reached[h + 1] is
\* f(h).
RECURSIVE searchFrom(_, _, _)
searchFrom(i, j, reached) ==
    IF i >= j THEN i
    ELSE LET h == (i + j) \div 2
         IN  IF ~reached[h + 1]
             THEN searchFrom(h + 1, j, reached)
             ELSE searchFrom(i, h, reached)

Search(n, reached) == searchFrom(0, n, reached)

\* Line 297 with > in the place of >=.
rankExceeded(count, rankNum, d) == NLess(rankNum, NScale(d, count))

\* Line 297, buckets[i].count >= rank, for rank = rankNum / d.
rankReached(count, rankNum, d) == NLeq(rankNum, NScale(d, count))

\* Line 282 without its negation.
topIsNotInf(sorted) == ~sorted[Len(sorted)].upperBound.inf

\* Line 282: math.IsInf(buckets[len(buckets)-1].upperBound, +1).
topIsInf(sorted) == sorted[Len(sorted)].upperBound.inf

Outcome(value, forced, fixed, left, repaired, norm, rf, rx) ==
    [value |-> value, forcedMonotonic |-> forced, fixedPrecision |-> fixed,
     buckets |-> left, repaired |-> repaired, normalized |-> norm,
     repairForced |-> rf, repairFixed |-> rx]

\* Lines 272-280 after the sort of line 281.
domainResultSorted(value, bs, sorted) ==
    Outcome(value, FALSE, FALSE, sorted, FALSE, <<>>, FALSE, FALSE)

\* Lines 272-280: the returns for a quantile outside [0, 1].
domainResult(value, bs, sorted) ==
    Outcome(value, FALSE, FALSE, bs, FALSE, <<>>, FALSE, FALSE)

\* Lines 305-315.
interpolate(norm, b, rankNum, d) ==
    LET bucketStart == IF b > 0 THEN norm[b].upperBound.v ELSE 0
        bucketEnd == norm[b + 1].upperBound.v
        prevCount == IF b > 0 THEN norm[b].count ELSE Zero
        count == NSub(norm[b + 1].count, prevCount)
        rank == NSub(rankNum, NScale(d, prevCount))
    IN  FScaleShift(bucketStart, bucketEnd - bucketStart,
                    FDivCount(rank, d, count))

\* Lines 289-315, as <<value, forcedMonotonic, fixedPrecision>>.
rankBuckets(qq, norm, forced, fixed) ==
    IF Len(norm) < 2 THEN <<NaN, FALSE, FALSE>>
    ELSE LET n == Len(norm)
             observations == norm[n].count
         IN  IF observations = Zero THEN <<NaN, FALSE, FALSE>>
             ELSE LET rankNum == NScale(qq.n, observations)
                      reached == [h \in 1..(n - 1) |->
                                     rankReached(norm[h].count, rankNum, qq.d)]
                      b == Search(n - 1, reached)
                  IN  IF b = n - 1
                      THEN <<FromBound(norm[n - 1].upperBound), forced, fixed>>
                      ELSE IF b = 0 /\ ~norm[1].upperBound.inf
                                    /\ norm[1].upperBound.v <= 0
                      THEN <<FromBound(norm[1].upperBound), forced, fixed>>
                      ELSE <<interpolate(norm, b, rankNum, qq.d), forced, fixed>>

bucketQuantile(qq, bs, sorted) ==
    IF qq.k = "NaN" THEN domainResult(NaN, bs, sorted)
    ELSE IF qq.n < 0 THEN domainResult(NegInf, bs, sorted)
    ELSE IF qq.n > qq.d THEN domainResult(PosInf, bs, sorted)
    ELSE IF ~topIsInf(sorted)
    THEN Outcome(NaN, FALSE, FALSE, sorted, FALSE, <<>>, FALSE, FALSE)
    ELSE LET co == coalesceBuckets(sorted)
             mono == ensureMonotonicAndIgnoreSmallDeltas(co.arr, co.n)
             norm == SubSeq(mono.arr, 1, co.n)
             res == rankBuckets(qq, norm, mono.forcedMonotonic,
                                mono.fixedPrecision)
         IN  Outcome(res[1], res[2], res[3], mono.arr, TRUE, norm,
                     mono.forcedMonotonic, mono.fixedPrecision)

----------------------------------------------------------------------------
(* The specification of bucketQuantile: a quantile and a non-empty bucket  *)
(* slice are drawn (the two bucket sets of the documented examples among   *)
(* them), and the function is called once.                                 *)

QChoices == {QNaN, Q(-1, 1), Q(0, 1), Q(1, 2), Q(1, 1), Q(2, 1)}

BoundChoices == {Finite(-1), Finite(1), PlusInf}

CountChoices == {N(0, 0), N(1, 0), N(2, 0), N(1, 1), N(2, 1), N(4, 1)}

BucketChoices == {Le(ub, c) : ub \in BoundChoices, c \in CountChoices}

ExampleInterpolated ==
    <<Le(Finite(1), N(1, 0)), Le(Finite(2), N(2, 0)), Le(PlusInf, N(3, 0))>>

ExampleDecreasing ==
    <<Le(Finite(1), N(5, 0)), Le(Finite(2), N(3, 0)), Le(PlusInf, N(10, 0))>>

InitQuantile ==
    /\ q \in QChoices
    /\ buckets \in (SeqsUpTo(BucketChoices, MaxBuckets) \ {<<>>})
                       \cup {ExampleInterpolated, ExampleDecreasing}
    /\ quantile = [done |-> FALSE]
    /\ IdleMatch
    /\ IdleOptimizer
    /\ IdleExec
    /\ IdleTelemetry

CallBucketQuantile ==
    /\ ~quantile.done
    /\ \E sorted \in SortedArrangements(buckets) :
           LET out == bucketQuantile(q, buckets, sorted)
           IN  /\ quantile' = [done |-> TRUE, given |-> buckets,
                               value |-> out.value,
                               forcedMonotonic |-> out.forcedMonotonic,
                               fixedPrecision |-> out.fixedPrecision,
                               repaired |-> out.repaired,
                               normalized |-> out.normalized,
                               repairForced |-> out.repairForced,
                               repairFixed |-> out.repairFixed]
               /\ buckets' = out.buckets
    /\ UNCHANGED <<q, matchVars, optVars, execVars, telemetryVars>>

NextQuantile == CallBucketQuantile

SpecQuantile == InitQuantile /\ [][NextQuantile]_vars

----------------------------------------------------------------------------
(* What one call was given and what it returned.                           *)

GivenBounds == {quantile.given[i].upperBound : i \in 1..Len(quantile.given)}

QInRange == q.k = "fin" /\ 0 <= q.n /\ q.n <= q.d

ExpectedOutside ==
    IF q.k = "NaN" THEN NaN ELSE IF q.n < 0 THEN NegInf ELSE PosInf

----------------------------------------------------------------------------
(* C7, as claimed.  bucketQuantile returns NaN whenever the highest upper  *)
(* bound of the given buckets is not +Inf, whatever q is (q < 0, q > 1 and *)
(* q = NaN included).                                                      *)

C7_NaNWithoutInfTop ==
    (quantile.done /\ PlusInf \notin GivenBounds) => quantile.value = NaN

(* C7, amended.  When the highest upper bound of the given buckets is not  *)
(* +Inf, bucketQuantile returns NaN for q = NaN and for q in [0, 1], but   *)
(* -Inf for q < 0 and +Inf for q > 1: the tests of q come first.           *)

C7_NaNWithoutInfTopInRange ==
    (quantile.done /\ PlusInf \notin GivenBounds) =>
        /\ quantile.value = (IF QInRange THEN NaN ELSE ExpectedOutside)
        /\ ~quantile.forcedMonotonic
        /\ ~quantile.fixedPrecision

\* No +Inf bucket and q = -1: the result is -Inf.
C7_Witness ==
    /\ quantile.done
    /\ PlusInf \notin GivenBounds
    /\ Len(quantile.given) >= 2
    /\ q = Q(-1, 1)
    /\ quantile.value = NegInf

\* No +Inf bucket and q in [0, 1]: the result is NaN.
C7_WitnessInRange ==
    /\ quantile.done
    /\ PlusInf \notin GivenBounds
    /\ q = Q(1, 2)
    /\ quantile.value = NaN

----------------------------------------------------------------------------
(* C8.  For a non-empty bucket set whose top bound is +Inf, bucketQuantile *)
(* returns NaN for q = NaN, -Inf for q < 0 and +Inf for q > 1, with both   *)
(* flags false and the caller's buckets as they were given.                *)

C8_OutsideDomain ==
    (quantile.done /\ PlusInf \in GivenBounds /\ ~QInRange) =>
        /\ quantile.value = ExpectedOutside
        /\ ~quantile.forcedMonotonic
        /\ ~quantile.fixedPrecision
        /\ buckets = quantile.given

\* q = 2 on buckets given out of order, with decreasing counts.
C8_Witness ==
    /\ quantile.done
    /\ q = Q(2, 1)
    /\ Len(quantile.given) = 3
    /\ quantile.given[1].upperBound = PlusInf
    /\ quantile.given[2].upperBound = Finite(1)
    /\ NLess(quantile.given[1].count, quantile.given[2].count)
    /\ quantile.value = PosInf
    /\ buckets = quantile.given

----------------------------------------------------------------------------
(* C9.  After the sort, coalesceBuckets and                                *)
(* ensureMonotonicAndIgnoreSmallDeltas the buckets ascend strictly by      *)
(* upper bound, one bucket per given bound, and their counts do not        *)
(* decrease: the count of a bound is the sum of the given counts of that   *)
(* bound, unless that sum is below the count before it or within the       *)
(* tolerance of it, and then it is the count before it.  The forced flag   *)
(* is set exactly when some sum was below the count before it by more than *)
(* the tolerance, the precision flag exactly when some sum differed from   *)
(* it by less.  {1:5, 2:3, +Inf:10} becomes {1:5, 2:5, +Inf:10} with the   *)
(* forced flag set and reported by the call.                               *)

RECURSIVE SumOfBound(_, _, _)
SumOfBound(bs, ub, i) ==
    IF i > Len(bs) THEN Zero
    ELSE NAdd(IF bs[i].upperBound = ub THEN bs[i].count ELSE Zero,
              SumOfBound(bs, ub, i + 1))

Lowered(i) ==
    LET norm == quantile.normalized
        sum == SumOfBound(quantile.given, norm[i].upperBound, 1)
    IN  NLess(sum, norm[i - 1].count) /\ ~almostEqual(norm[i - 1].count, sum)

Noise(i) ==
    LET norm == quantile.normalized
        sum == SumOfBound(quantile.given, norm[i].upperBound, 1)
    IN  sum # norm[i - 1].count /\ almostEqual(norm[i - 1].count, sum)

C9_Normalized ==
    (quantile.done /\ quantile.repaired) =>
        LET norm == quantile.normalized
            n == Len(norm)
        IN  /\ \A i, j \in 1..n :
                   i < j => BoundLess(norm[i].upperBound, norm[j].upperBound)
            /\ {norm[i].upperBound : i \in 1..n} = GivenBounds
            /\ \A i \in 1..(n - 1) : NLeq(norm[i].count, norm[i + 1].count)
            /\ norm[1].count = SumOfBound(quantile.given, norm[1].upperBound, 1)
            /\ \A i \in 2..n :
                   norm[i].count =
                       IF Lowered(i) \/ Noise(i)
                       THEN norm[i - 1].count
                       ELSE SumOfBound(quantile.given, norm[i].upperBound, 1)
            /\ quantile.repairForced = (\E i \in 2..n : Lowered(i))
            /\ quantile.repairFixed = (\E i \in 2..n : Noise(i))
            /\ quantile.forcedMonotonic = quantile.repairForced
            /\ quantile.fixedPrecision = quantile.repairFixed
            /\ quantile.given = ExampleDecreasing =>
                   /\ norm = <<Le(Finite(1), N(5, 0)), Le(Finite(2), N(5, 0)),
                               Le(PlusInf, N(10, 0))>>
                   /\ quantile.forcedMonotonic

\* Four given buckets would be needed for two merges and two repairs; with
\* three: two buckets of one bound are merged, and the +Inf count is within
\* the tolerance of the merged count, so it is replaced by it.
C9_Witness ==
    /\ quantile.done
    /\ quantile.repaired
    /\ Len(quantile.given) = 3
    /\ Len(quantile.normalized) = 2
    /\ quantile.fixedPrecision
    /\ ~quantile.forcedMonotonic
    /\ quantile.normalized[2].count = quantile.normalized[1].count

\* The documented example: the decrease at bound 2 is removed and reported.
C9_WitnessExample ==
    /\ quantile.done
    /\ quantile.given = ExampleDecreasing
    /\ quantile.forcedMonotonic
    /\ quantile.normalized[2] = Le(Finite(2), N(5, 0))

----------------------------------------------------------------------------
(* C10.  For q in [0, 1] and normalized buckets, at least two of them and  *)
(* the top count not zero: with rank = q * topCount and b the first        *)
(* bucket, the top excluded, whose count is at least rank, the result is   *)
(* the second-highest upper bound when there is no such bucket, the first  *)
(* bucket's upper bound when b is the first bucket and that bound is <= 0, *)
(* and otherwise                                                           *)
(*   previousBound + (thisBound - previousBound)                           *)
(*                     * (rank - previousCount) / (thisCount - previousCount) *)
(* with previousBound and previousCount 0 for the first bucket (a quotient *)
(* 0/0 being NaN, as in float64).  {1:1, 2:2, +Inf:3} at q = 0.5 matches   *)
(* the bucket of bound 2 and gives 1.5.  With fewer than two buckets after *)
(* the repair, or a zero top count, the result is NaN.                     *)

\* The buckets below the top whose count is at least q * topCount.
AtLeastRank ==
    LET norm == quantile.normalized
        n == Len(norm)
    IN  {i \in 1..(n - 1) :
            NLeq(NScale(q.n, norm[n].count), NScale(q.d, norm[i].count))}

Matched == CHOOSE i \in AtLeastRank : \A j \in AtLeastRank : i <= j

\* value = prevBound + (thisBound - prevBound) * (rank - prevCount) / delta,
\* with rank = q.n * topCount / q.d, cleared of its denominators.
IsInterpolation(value, b) ==
    LET norm == quantile.normalized
        prevBound == IF b > 1 THEN norm[b - 1].upperBound.v ELSE 0
        prevCount == IF b > 1 THEN norm[b - 1].count ELSE Zero
        thisBound == norm[b].upperBound.v
        delta == NSub(norm[b].count, prevCount)
        over == NSub(NScale(q.n, norm[Len(norm)].count), NScale(q.d, prevCount))
        den == NScale(q.d, delta)
    IN  IF delta = Zero /\ over = Zero
        THEN value.k = "NaN"
        ELSE /\ delta # Zero
             /\ value.k = "fin"
             /\ NMul(value.num, den) =
                    NMul(NAdd(NScale(prevBound, den),
                              NScale(thisBound - prevBound, over)),
                         value.den)

C10_Ranking ==
    (quantile.done /\ quantile.repaired) =>
        LET norm == quantile.normalized
            n == Len(norm)
        IN  /\ IF n < 2 \/ norm[n].count = Zero
               THEN quantile.value = NaN
               ELSE IF AtLeastRank = {}
               THEN FSame(quantile.value, FromBound(norm[n - 1].upperBound))
               ELSE IF Matched = 1 /\ norm[1].upperBound.v <= 0
               THEN FSame(quantile.value, FromBound(norm[1].upperBound))
               ELSE IsInterpolation(quantile.value, Matched)
            /\ (quantile.given = ExampleInterpolated /\ q = Q(1, 2)) =>
                   /\ norm[Matched].upperBound = Finite(2)
                   /\ FSame(quantile.value, Fin(N(3, 0), N(2, 0)))

\* The rank equals the count of the second bucket exactly, and the result
\* is interpolated between the bounds -1 and 1 up to the bound 1.
C10_Witness ==
    /\ quantile.done
    /\ quantile.repaired
    /\ Len(quantile.normalized) = 3
    /\ q = Q(1, 2)
    /\ AtLeastRank # {}
    /\ Matched = 2
    /\ NScale(q.n, quantile.normalized[3].count)
           = NScale(q.d, quantile.normalized[2].count)
    /\ FSame(quantile.value, Fin(One, One))

\* The documented example: 1.5, inside the bucket of bound 2.
C10_WitnessExample ==
    /\ quantile.done
    /\ quantile.given = ExampleInterpolated
    /\ q = Q(1, 2)
    /\ FSame(quantile.value, Fin(N(3, 0), N(2, 0)))

----------------------------------------------------------------------------
(* C12.  For q in [0, 1] and buckets with non-negative counts, a top bound *)
(* of +Inf, at least two distinct bounds and a non-zero top count, the     *)
(* result is a number: the second-highest bound when no bucket below the   *)
(* top reaches the rank, and otherwise a value between the lower and the   *)
(* upper bound of the matched bucket.                                      *)

NonNegativeCounts ==
    \A i \in 1..Len(quantile.given) : NLeq(Zero, quantile.given[i].count)

ProperHistogram ==
    /\ quantile.done
    /\ quantile.repaired
    /\ QInRange
    /\ NonNegativeCounts
    /\ Len(quantile.normalized) >= 2
    /\ quantile.normalized[Len(quantile.normalized)].count # Zero

\* lower <= value <= upper for a finite value with a positive denominator.
Between(lower, value, upper) ==
    /\ value.k = "fin"
    /\ NLess(Zero, value.den)
    /\ NLeq(NScale(lower, value.den), value.num)
    /\ NLeq(value.num, NScale(upper, value.den))

WithinMatchedBucket ==
    LET norm == quantile.normalized
        n == Len(norm)
    IN  IF AtLeastRank = {}
        THEN FSame(quantile.value, FromBound(norm[n - 1].upperBound))
        ELSE LET upper == norm[Matched].upperBound.v
                 lower == IF Matched > 1 THEN norm[Matched - 1].upperBound.v
                          ELSE IF upper > 0 THEN 0 ELSE upper
             IN  Between(lower, quantile.value, upper)

\* C12: for every q in [0, 1] and every bucket set with non-negative
\* counts, a top bound of +Inf, at least two distinct bounds and a non-zero
\* top count, bucketQuantile returns a defined number (no division by a
\* zero count delta, q = 0 with a zero first count included) that lies
\* between the matched bucket's lower bound (0 for a first bucket of
\* positive upper bound) and its upper bound, or equals the second-highest
\* upper bound when the rank falls in the top bucket.
C12_DefinedWithinBucket ==
    ProperHistogram => (quantile.value.k = "fin" /\ WithinMatchedBucket)

\* The rank is 0 and is reached by a first bucket that is empty and has a
\* positive upper bound: line 315 divides 0 by 0.
EmptyFirstBucketMatched ==
    /\ AtLeastRank # {}
    /\ Matched = 1
    /\ quantile.normalized[1].count = Zero
    /\ quantile.normalized[1].upperBound.v > 0

\* Everywhere else the result is a number inside the matched bucket, and in
\* that case it is NaN.
DefinedUnlessEmptyFirstBucket ==
    ProperHistogram =>
        IF EmptyFirstBucketMatched
        THEN q.n = 0 /\ quantile.value = NaN
        ELSE quantile.value.k = "fin" /\ WithinMatchedBucket

\* q = 0 on {1: 0, +Inf: 1} gives NaN.
EmptyFirstBucketGivesNaN ==
    /\ ProperHistogram
    /\ q = Q(0, 1)
    /\ quantile.given = <<Le(Finite(1), N(0, 0)), Le(PlusInf, N(1, 0))>>
    /\ quantile.value = NaN

----------------------------------------------------------------------------
(***************************************************************************)
(* OperatorTelemetry: src/engine/range_query.go, lines 101-168.            *)
(*                                                                         *)
(* A telemetry object is a record: kind says which implementation of the   *)
(* interface it is ("noop" for *NoopTelemetry, "tracked" for               *)
(* *TrackedTelemetry), and a method call dispatches on it.  A              *)
(* time.Duration is a count of nanoseconds; the durations and the number   *)
(* of calls are bounded, so every sum stays inside its int64.              *)
(***************************************************************************)

MaxTelemetryCalls == 3
MaxDuration == 2
MaxSamples == 2
MaxStep == 1

NameChoices == {"root", "child"}
DurationChoices == {-1} \cup (0..MaxDuration)
SamplesChoices == 0..MaxSamples
StepIndexChoices == 0..MaxStep

\* stats.NewQuerySamples(false): both counters are zero and there are no
\* per-step totals.
NewQuerySamples(enablePerStepStats) ==
    [TotalSamples |-> 0, PeakSamples |-> 0,
     EnablePerStepStats |-> enablePerStepStats]

\* stats.QuerySamples.IncrementSamplesAtStep, without per-step totals.
QuerySamplesIncrementSamplesAtStep(qs, step, samples) ==
    [qs EXCEPT !.TotalSamples = @ + samples]

\* stats.QuerySamples.UpdatePeak.
QuerySamplesUpdatePeak(qs, samples) ==
    IF samples > qs.PeakSamples THEN [qs EXCEPT !.PeakSamples = samples] ELSE qs

NewNoopTelemetry(name) == [kind |-> "noop", name |-> name]

NewTrackedTelemetry(name) ==
    [kind |-> "tracked", name |-> name, ExecutionTime |-> 0,
     LoadedSamples |-> NewQuerySamples(FALSE)]

NewTelemetry(name, enabled) ==
    IF enabled THEN NewTrackedTelemetry(name) ELSE NewNoopTelemetry(name)

\* The statement of line 154 with = for +=.
TrackedAddExecutionTimeTakenOverwrite(ti, t) == [ti EXCEPT !.ExecutionTime = t]

\* Line 154: ti.ExecutionTime += t.
TrackedAddExecutionTimeTaken(ti, t) == [ti EXCEPT !.ExecutionTime = @ + t]

TrackedIncrementSamplesAtStep(ti, samples, step) ==
    [ti EXCEPT !.LoadedSamples = QuerySamplesIncrementSamplesAtStep(@, step, samples)]

TrackedUpdatePeak(ti, samples) ==
    [ti EXCEPT !.LoadedSamples = QuerySamplesUpdatePeak(@, samples)]

\* The methods of NoopTelemetry have empty bodies.
NoopAddExecutionTimeTaken(t0, t) == t0
NoopIncrementSamplesAtStep(t0, samples, step) == t0
NoopUpdatePeak(t0, samples) == t0

\* The three getters of the interface.
Name(t) == t.name

ExecutionTimeTaken(t) ==
    IF t.kind = "tracked" THEN t.ExecutionTime ELSE 0

Samples(t) ==
    IF t.kind = "tracked" THEN t.LoadedSamples ELSE NewQuerySamples(FALSE)

Call(op, a, b) == [op |-> op, a |-> a, b |-> b]

InitTelemetry ==
    /\ \E name \in NameChoices, enabled \in BOOLEAN :
          /\ tm = NewTelemetry(name, enabled)
          /\ passed = <<[op |-> "NewTelemetry", a |-> name, b |-> enabled]>>
    /\ IdleMatch
    /\ IdleOptimizer
    /\ IdleExec
    /\ IdleQuantile

MoreCalls == Len(passed) <= MaxTelemetryCalls

AddExecutionTimeTaken(t) ==
    /\ MoreCalls
    /\ tm' = IF tm.kind = "tracked" THEN TrackedAddExecutionTimeTaken(tm, t)
                                    ELSE NoopAddExecutionTimeTaken(tm, t)
    /\ passed' = Append(passed, Call("AddExecutionTimeTaken", t, 0))
    /\ UNCHANGED <<matchVars, optVars, execVars, quantileVars>>

IncrementSamplesAtStep(samples, step) ==
    /\ MoreCalls
    /\ tm' = IF tm.kind = "tracked"
             THEN TrackedIncrementSamplesAtStep(tm, samples, step)
             ELSE NoopIncrementSamplesAtStep(tm, samples, step)
    /\ passed' = Append(passed, Call("IncrementSamplesAtStep", samples, step))
    /\ UNCHANGED <<matchVars, optVars, execVars, quantileVars>>

UpdatePeak(samples) ==
    /\ MoreCalls
    /\ tm' = IF tm.kind = "tracked" THEN TrackedUpdatePeak(tm, samples)
                                    ELSE NoopUpdatePeak(tm, samples)
    /\ passed' = Append(passed, Call("UpdatePeak", samples, 0))
    /\ UNCHANGED <<matchVars, optVars, execVars, quantileVars>>

NextTelemetry ==
    \/ \E t \in DurationChoices : AddExecutionTimeTaken(t)
    \/ \E samples \in SamplesChoices, step \in StepIndexChoices :
          IncrementSamplesAtStep(samples, step)
    \/ \E samples \in SamplesChoices : UpdatePeak(samples)

SpecTelemetry == InitTelemetry /\ [][NextTelemetry]_vars

\* The durations passed to AddExecutionTimeTaken so far, summed.
RECURSIVE sumOfDurationsFrom(_, _)
sumOfDurationsFrom(calls0, i) ==
    IF i > Len(calls0) THEN 0
    ELSE (IF calls0[i].op = "AddExecutionTimeTaken" THEN calls0[i].a ELSE 0)
         + sumOfDurationsFrom(calls0, i + 1)

SumOfDurations == sumOfDurationsFrom(passed, 2)

Constructed == tm.kind # "none"

CallsOf(op) == {i \in 2..Len(passed) : passed[i].op = op}

\* C11: on a TrackedTelemetry, after any sequence of calls,
\* ExecutionTimeTaken returns the sum of the durations passed to
\* AddExecutionTimeTaken so far (zero before the first call) and Name
\* returns the name given at construction; on a NoopTelemetry, after any
\* sequence of AddExecutionTimeTaken, IncrementSamplesAtStep and UpdatePeak
\* calls, ExecutionTimeTaken returns zero and Samples reports a zero total
\* and a zero peak; NewTelemetry returns the tracked variant exactly when
\* enabled is true and the no-op variant otherwise.
C11_Telemetry ==
    Constructed =>
        /\ tm.kind = (IF passed[1].b THEN "tracked" ELSE "noop")
        /\ Name(tm) = passed[1].a
        /\ tm.kind = "tracked" => ExecutionTimeTaken(tm) = SumOfDurations
        /\ tm.kind = "noop" =>
              /\ ExecutionTimeTaken(tm) = 0
              /\ Samples(tm).TotalSamples = 0
              /\ Samples(tm).PeakSamples = 0

\* A tracked telemetry that was given two different non-zero durations, with
\* other calls in between.
C11_Witness ==
    /\ Constructed
    /\ tm.kind = "tracked"
    /\ \E i, j \in CallsOf("AddExecutionTimeTaken") :
          /\ i < j
          /\ passed[i].a > 0
          /\ passed[j].a > 0
          /\ passed[i].a # passed[j].a
    /\ CallsOf("IncrementSamplesAtStep") \cup CallsOf("UpdatePeak") # {}
    /\ ExecutionTimeTaken(tm) = SumOfDurations

\* A no-op telemetry that was given a duration, a sample count and a peak,
\* none of them zero.
C11_WitnessNoop ==
    /\ Constructed
    /\ tm.kind = "noop"
    /\ \E i \in CallsOf("AddExecutionTimeTaken") : passed[i].a > 0
    /\ \E i \in CallsOf("IncrementSamplesAtStep") : passed[i].a > 0
    /\ \E i \in CallsOf("UpdatePeak") : passed[i].a > 0
    /\ ExecutionTimeTaken(tm) = 0
    /\ Samples(tm) = NewQuerySamples(FALSE)

\* What the tracked variant records per step is outside C11; it is what the
\* model of stats.QuerySamples says: the total of the counts and their peak.
TrackedSamplesRecorded ==
    (Constructed /\ tm.kind = "tracked") =>
        /\ \A i \in CallsOf("UpdatePeak") : Samples(tm).PeakSamples >= passed[i].a
        /\ CallsOf("IncrementSamplesAtStep") = {} => Samples(tm).TotalSamples = 0

=============================================================================
